---------------------------- MODULE Spec2Model ----------------------------
(***************************************************************************)
(* A model of So_Much_Potential.ipynb: the potential-energy-surface        *)
(* analysis of HF and the velocity-Verlet trajectory driver.               *)
(*                                                                         *)
(* The notebook computes with Python floats.  A float is modelled as a     *)
(* binary floating-point number m * 2^e with a significand of Precision    *)
(* bits, and every arithmetic operation rounds its exact result to the     *)
(* nearest such number, ties to even, as IEEE 754 arithmetic does.  The    *)
(* significand is narrower than binary64's 53 bits because TLC's integers  *)
(* are 32 bits wide; exponents are unbounded (the notebook's magnitudes    *)
(* are far from overflow and underflow).                                   *)
(***************************************************************************)
EXTENDS Integers, Sequences, FiniteSets, TLC

(***************************************************************************)
(* Floating point                                                          *)
(***************************************************************************)

\* Width of the significand and of the limbs of the exact intermediate
\* results.
Precision == 28
LimbBits == Precision + 2
Limb == 2^LimbBits
HalfLimb == 2^(LimbBits \div 2)

\* The number of bits of n >= 0, known to be between lo and hi (a bisection).
RECURSIVE BitLenBetween(_, _, _)
BitLenBetween(n, lo, hi) ==
    IF lo = hi THEN lo
    ELSE IF n < 2^((lo + hi) \div 2)
         THEN BitLenBetween(n, lo, (lo + hi) \div 2)
         ELSE BitLenBetween(n, ((lo + hi) \div 2) + 1, hi)
BitLen(n) == BitLenBetween(n, 0, LimbBits + 1)

Sign(n) == IF n < 0 THEN -1 ELSE 1
Abs(n) == IF n < 0 THEN -n ELSE n

Float(m, e) == [m |-> m, e |-> e]
Zero == Float(0, 0)

\* A result together with the IEEE "inexact" flag of the operation.
Res(v, x) == [v |-> v, x |-> x]

\* sign * q0 * 2^e rounded up by one unit when up; the significand may
\* reach 2^Precision then.
RoundUp(sign, e, q0, up, inexact) ==
    IF up /\ q0 + 1 = 2^Precision
    THEN Res(Float(sign * 2^(Precision - 1), e + 1), inexact)
    ELSE Res(Float(sign * (IF up THEN q0 + 1 ELSE q0), e), inexact)

\* The kept bits q0 and the dropped bits (remHi, remLo) against one half
\* (halfHi, halfLo): round to nearest, ties to even.
RoundParts(sign, e, st, shifted, q0, remHi, remLo, halfHi, halfLo) ==
    RoundUp(sign, e, q0,
            /\ shifted
            /\ \/ remHi > halfHi
               \/ remHi = halfHi /\ remLo > halfLo
               \/ remHi = halfHi /\ remLo = halfLo /\ (st \/ q0 % 2 = 1),
            st \/ remHi # 0 \/ remLo # 0)

\* The wide number with its lowest sh bits to be dropped.
RoundShift(sign, H, L, E, st, sh) ==
    RoundParts(sign, E + sh, st, sh > 0,
               IF sh <= 0 THEN L * 2^(-sh)
               ELSE IF sh < LimbBits THEN H * 2^(LimbBits - sh) + (L \div 2^sh)
               ELSE IF sh = LimbBits THEN H
               ELSE H \div 2^(sh - LimbBits),
               IF sh > LimbBits THEN H % 2^(sh - LimbBits) ELSE 0,
               IF sh <= 0 THEN 0 ELSE IF sh < LimbBits THEN L % 2^sh ELSE L,
               IF sh > LimbBits THEN 2^(sh - LimbBits - 1) ELSE 0,
               IF sh <= 0 \/ sh > LimbBits THEN 0 ELSE 2^(sh - 1))

\* sign * (H * Limb + L) * 2^E, followed by nonzero bits iff st, rounded to
\* the nearest float, ties to even.
RoundWide(sign, H, L, E, st) ==
    IF H = 0 /\ L = 0 THEN Res(Zero, FALSE)
    ELSE RoundShift(sign, H, L, E, st,
                    (IF H > 0 THEN LimbBits + BitLen(H) ELSE BitLen(L)) - Precision)

\* The product of two significands from the products of their half limbs.
MulCarry(sign, e, d0, s1, p2) ==
    RoundWide(sign, (s1 \div HalfLimb) + p2, (s1 % HalfLimb) * HalfLimb + d0, e, FALSE)
MulSum(sign, e, p0, p1, p2) ==
    MulCarry(sign, e, p0 % HalfLimb, (p0 \div HalfLimb) + p1, p2)
MulLimbs(sign, e, x1, x0, y1, y0) ==
    MulSum(sign, e, x0 * y0, x1 * y0 + x0 * y1, x1 * y1)

RMul(a, b) ==
    IF a.m = 0 \/ b.m = 0 THEN Res(Zero, FALSE)
    ELSE MulLimbs(Sign(a.m) * Sign(b.m), a.e + b.e,
                  Abs(a.m) \div HalfLimb, Abs(a.m) % HalfLimb,
                  Abs(b.m) \div HalfLimb, Abs(b.m) % HalfLimb)

\* sa * (H * Limb + L) + sb * y, all times 2^e.
AddParts(sa, sb, H, L, y, e) ==
    IF sa = sb
    THEN RoundWide(sa, IF L + y >= Limb THEN H + 1 ELSE H,
                       IF L + y >= Limb THEN L + y - Limb ELSE L + y, e, FALSE)
    ELSE RoundWide(IF H = 0 /\ L < y THEN sb ELSE sa,
                   IF L < y /\ H > 0 THEN H - 1 ELSE H,
                   IF H = 0 /\ L < y THEN y - L ELSE IF L < y THEN L - y + Limb ELSE L - y,
                   e, FALSE)

\* a + b where a.e >= b.e and neither is zero.
RAddOrdered(a, b) ==
    IF a.e - b.e >= Precision + 2 THEN Res(a, TRUE)
    ELSE AddParts(Sign(a.m), Sign(b.m),
                  Abs(a.m) \div 2^(LimbBits - (a.e - b.e)),
                  (Abs(a.m) % 2^(LimbBits - (a.e - b.e))) * 2^(a.e - b.e),
                  Abs(b.m), b.e)

RAdd(a, b) ==
    IF a.m = 0 THEN Res(b, FALSE)
    ELSE IF b.m = 0 THEN Res(a, FALSE)
    ELSE RAddOrdered(IF a.e >= b.e THEN a ELSE b, IF a.e >= b.e THEN b ELSE a)

FNeg(a) == Float(-a.m, a.e)

RSub(a, b) == RAdd(a, FNeg(b))

\* Long division: n more quotient bits of rem / y after the quotient q, three
\* bits at a time while three remain (rem < y < 2^Precision, so 8 * rem fits).
RECURSIVE DivBits(_, _, _, _)
DivBits(q, rem, y, n) ==
    IF n = 0 THEN <<q, rem>>
    ELSE IF n >= 3 THEN DivBits(8 * q + ((8 * rem) \div y), (8 * rem) % y, y, n - 3)
    ELSE DivBits(2 * q + ((2 * rem) \div y), (2 * rem) % y, y, n - 1)

DivRound(sign, e, qr) == RoundWide(sign, 0, qr[1], e, qr[2] # 0)

RDiv(a, b) ==
    IF a.m = 0 THEN Res(Zero, FALSE)
    ELSE DivRound(Sign(a.m) * Sign(b.m), a.e - b.e - (Precision + 1),
                  DivBits(Abs(a.m) \div Abs(b.m), Abs(a.m) % Abs(b.m), Abs(b.m),
                          Precision + 1))

\* Digit-by-digit square root: n more root bits; the radicand's bit pairs
\* are taken from m (of nb bits, nb even) from the top, then are zero.
RECURSIVE SqrtBits(_, _, _, _, _, _)
SqrtBits(root, rem, m, nb, i, n) ==
    IF i = n THEN <<root, rem>>
    ELSE
    LET r4 == rem * 4 + (IF 2 * (i + 1) <= nb THEN (m \div 2^(nb - 2 * (i + 1))) % 4 ELSE 0)
    IN  IF r4 >= root * 4 + 1
        THEN SqrtBits(2 * root + 1, r4 - (root * 4 + 1), m, nb, i + 1, n)
        ELSE SqrtBits(2 * root, r4, m, nb, i + 1, n)

SqrtRound(e, rr) == RoundWide(1, 0, rr[1], e, rr[2] # 0)

\* The square root of m * 2^e, e even, m of nb bits counting a leading zero
\* when the count is odd.
SqrtEven(m, e, nb) ==
    SqrtRound((e \div 2) - (Precision + 1 - (nb \div 2)),
              SqrtBits(0, 0, m, nb, 0, Precision + 1))

SqrtOf(m, e) == SqrtEven(m, e, BitLen(m) + (BitLen(m) % 2))

RSqrt(a) ==
    IF a.m = 0 THEN Res(Zero, FALSE)
    ELSE SqrtOf(IF a.e % 2 # 0 THEN 2 * a.m ELSE a.m, IF a.e % 2 # 0 THEN a.e - 1 ELSE a.e)

\* The values a float variable holds besides numbers: nan, and the marker of
\* a name that is not bound yet.
NaN == Float(0, 1)
Undef == Float(0, 2)
IsNum(a) == a.m # 0 \/ a.e = 0

FMul(a, b) == IF IsNum(a) /\ IsNum(b) THEN RMul(a, b).v ELSE NaN
FAdd(a, b) == IF IsNum(a) /\ IsNum(b) THEN RAdd(a, b).v ELSE NaN
FSub(a, b) == IF IsNum(a) /\ IsNum(b) THEN RSub(a, b).v ELSE NaN
FDiv(a, b) == IF IsNum(a) /\ IsNum(b) /\ b.m # 0 THEN RDiv(a, b).v ELSE NaN
\* np.sqrt: nan for a negative argument.
FSqrt(a) == IF IsNum(a) /\ a.m >= 0 THEN RSqrt(a).v ELSE NaN
FAbs(a) == Float(Abs(a.m), a.e)

\* a < b, exactly (both numbers).
FLess(a, b) ==
    IF a.m = 0 THEN b.m > 0
    ELSE IF b.m = 0 THEN a.m < 0
    ELSE IF (a.m < 0) # (b.m < 0) THEN a.m < 0
    ELSE IF a.e # b.e THEN (a.e < b.e) = (a.m > 0)
    ELSE a.m < b.m
FLeq(a, b) == ~FLess(b, a)

FromInt(n) == RoundWide(Sign(n), 0, Abs(n), 0, FALSE).v
\* The float nearest to the decimal literal n/d.
Lit(n, d) == RDiv(FromInt(n), FromInt(d)).v

One == Float(2^(Precision - 1), 1 - Precision)
Two == Float(2^(Precision - 1), 2 - Precision)
Half == Float(2^(Precision - 1), -Precision)

(***************************************************************************)
(* numpy's functions                                                       *)
(***************************************************************************)

\* np.pi, and 2 pi split in a short high part and a low part for the
\* argument reduction of sin and cos.
np_pi == Float(210828714, -26)
TwoPi == Float(210828714, -25)
TwoPiHi == Float(210828704, -25)
TwoPiLo == Float(170006156, -49)
PiHi == Float(210828704, -26)
PiLo == Float(170006156, -50)
HalfPiHi == Float(210828704, -27)

\* 1/3!, 1/5!, ..., 1/15! and 1/2!, 1/4!, ..., 1/16!.
SinCoef == << Float(178956971, -30), Float(143165577, -34), Float(218157069, -40),
              Float(193917395, -46), Float(225649332, -53), Float(185148170, -60),
              Float(225704436, -68) >>
CosCoef == << Float(134217728, -28), Float(178956971, -32), Float(190887435, -37),
              Float(218157069, -43), Float(155133916, -49), Float(150432888, -56),
              Float(211597908, -64), Float(225704435, -72) >>

\* The nearest integer to a float of moderate size (half rounds up in magnitude).
NearestInt(a) ==
    IF a.m = 0 THEN 0
    ELSE IF a.e >= 0 THEN a.m * 2^a.e
    ELSE IF -a.e > 30 THEN 0
    ELSE Sign(a.m) * ((Abs(a.m) + 2^(-a.e - 1)) \div 2^(-a.e))

\* x reduced to [-pi, pi] by a multiple of 2 pi.
ReduceTwoPi(x) ==
    LET n == FromInt(NearestInt(FDiv(x, TwoPi)))
    IN  FSub(FSub(x, FMul(n, TwoPiHi)), FMul(n, TwoPiLo))

\* y in [-pi, pi] reflected into [-pi/2, pi/2]: sin keeps its value, cos
\* changes sign when reflected.
Reflected(y) == FLess(HalfPiHi, y) \/ FLess(y, FNeg(HalfPiHi))
Reflect(y) ==
    IF FLess(HalfPiHi, y) THEN FAdd(FSub(PiHi, y), PiLo)
    ELSE IF FLess(y, FNeg(HalfPiHi)) THEN FSub(FSub(FNeg(PiHi), y), PiLo)
    ELSE y

\* c[k] - z (c[k+1] - z (... - z c[n])), Horner's rule.
RECURSIVE Alternating(_, _, _)
Alternating(c, z, k) ==
    IF k = Len(c) THEN c[k]
    ELSE FSub(c[k], FMul(z, Alternating(c, z, k + 1)))

np_sin(x) ==
    IF ~IsNum(x) THEN NaN
    ELSE LET y == Reflect(ReduceTwoPi(x))
             z == FMul(y, y)
         IN  FSub(y, FMul(y, FMul(z, Alternating(SinCoef, z, 1))))

np_cos(x) ==
    IF ~IsNum(x) THEN NaN
    ELSE LET w == ReduceTwoPi(x)
             y == Reflect(w)
             z == FMul(y, y)
             c == FSub(One, FMul(z, Alternating(CosCoef, z, 1)))
         IN  IF Reflected(w) THEN FNeg(c) ELSE c

\* np.isclose(a, b) with the default rtol = 1e-5 and atol = 1e-8.
isclose(a, b) ==
    /\ IsNum(a) /\ IsNum(b)
    /\ FLeq(FAbs(FSub(a, b)), FAdd(Lit(1, 100000000), FMul(Lit(1, 100000), FAbs(b))))

\* np.linspace(start, stop, num)[j]: start + j * step, the last point stop.
linspace(start, stop, num) ==
    LET step == FDiv(FSub(stop, start), FromInt(num - 1))
    IN  [j \in 0..(num - 1) |->
            IF j = num - 1 THEN stop ELSE FAdd(FMul(FromInt(j), step), start)]

\* argmin that keeps the last index of the minimum.
argmin_last(arr) ==
    CHOOSE j \in DOMAIN arr :
        /\ \A l \in DOMAIN arr : FLeq(arr[j], arr[l])
        /\ \A l \in DOMAIN arr : l > j => FLess(arr[j], arr[l])

\* np.argmin of an array indexed from 0: the first index of the minimum.
argmin(arr) ==
    CHOOSE j \in DOMAIN arr :
        /\ \A l \in DOMAIN arr : FLeq(arr[j], arr[l])
        /\ \A l \in DOMAIN arr : l < j => FLess(arr[j], arr[l])

\* arr[j] with numpy's indexing: a negative index counts from the end.
size(arr) == Cardinality(DOMAIN arr)
At(arr, j) == IF j < 0 THEN arr[j + size(arr)] ELSE arr[j]

\* np.array([...]) of a list
array(list) == [j \in 0..(Len(list) - 1) |-> list[j + 1]]

\* np.zeros(n)
zeros(n) == [j \in 0..(n - 1) |-> Zero]

\* np.allclose(a, b) of two arrays of the same shape.
allclose(a, b) == \A j \in DOMAIN a : isclose(a[j], b[j])

(***************************************************************************)
(* Spline objects.  A cubic spline is a sequence of pieces, each a cubic   *)
(* c[1] + c[2] x + c[3] x^2 + c[4] x^3 in x = r - r0 that holds from its   *)
(* knot to the next piece's knot.  The energies are samples of such a      *)
(* curve, and the interpolating spline through samples of a cubic spline   *)
(* curve is that curve, so a spline object is the curve with the fitted    *)
(* domain [lo, hi].  Calling it outside [lo, hi] evaluates the end piece   *)
(* (ext = 0, extrapolation).                                               *)
(***************************************************************************)
Piece(knot, r0, c) == [knot |-> knot, r0 |-> r0, c |-> c]
Field(pieces, lo, hi) == [pieces |-> pieces, lo |-> lo, hi |-> hi]
NoField == Field(<<>>, Undef, Undef)

\* The piece that holds at r.
PieceAt(f, r) ==
    LET n == Len(f.pieces)
    IN  IF n = 1 THEN f.pieces[1]
        ELSE f.pieces[CHOOSE j \in 1..n :
                        /\ j = 1 \/ FLeq(f.pieces[j].knot, r)
                        /\ j = n \/ FLess(r, f.pieces[j + 1].knot)]

EvaluatePiece(p, r) ==
    LET x == FSub(r, p.r0)
    IN  FAdd(FMul(FAdd(FMul(FAdd(FMul(p.c[4], x), p.c[3]), x), p.c[2]), x), p.c[1])

\* spline(r)
Evaluate(f, r) == EvaluatePiece(PieceAt(f, r), r)

\* spline.derivative()
Derivative(f) ==
    [f EXCEPT !.pieces = [j \in 1..Len(f.pieces) |->
        [f.pieces[j] EXCEPT !.c = << f.pieces[j].c[2], FMul(Two, f.pieces[j].c[3]),
                                     FMul(FromInt(3), f.pieces[j].c[4]), Zero >>]]]

\* The curve through the data itself, the factor -1 forgotten.
Negate_none(f) == f

\* The curve through the data -1 * y when f is the curve through y.
Negate(f) ==
    [f EXCEPT !.pieces = [j \in 1..Len(f.pieces) |->
        [f.pieces[j] EXCEPT !.c = [l \in 1..4 |-> FNeg(f.pieces[j].c[l])]]]]

InDomain(f, r) == FLeq(f.lo, r) /\ FLeq(r, f.hi)

StrictlyIncreasing(x) == \A j \in 0..(size(x) - 2) : FLess(x[j], x[j + 1])

\* InterpolatedUnivariateSpline(x, y, k=3), y the samples at x of the curve
\* p: raises for fewer than 4 points (m > k is required) and for x that is
\* not strictly increasing, otherwise the spline object fitted on
\* [x[0], x[-1]].
InterpolatedUnivariateSpline(x, p) ==
    IF size(x) < 4 \/ ~StrictlyIncreasing(x)
    THEN [raised |-> TRUE, spline |-> NoField]
    ELSE [raised |-> FALSE, spline |-> Field(p.pieces, x[0], x[size(x) - 1])]

(***************************************************************************)
(* The notebook's data                                                     *)
(***************************************************************************)

\* The bond lengths with 0.55 typed twice in place of 0.55, 0.6.
r_array_hundredths_typo ==
    << 50, 55, 55, 65, 70, 75, 80, 85, 90, 95, 100, 110, 120, 130, 140, 150,
       160, 170, 180, 190, 200, 210, 220, 230 >>

\* r_array in hundredths of an Angstrom, and as floats.
r_array_hundredths ==
    << 50, 55, 60, 65, 70, 75, 80, 85, 90, 95, 100, 110, 120, 130, 140, 150,
       160, 170, 180, 190, 200, 210, 220, 230 >>
r_array == array([j \in 1..Len(r_array_hundredths) |-> Lit(r_array_hundredths[j], 100)])

\* Angstrom to Bohr, as the notebook converts.
BohrPerAngstrom == Lit(189, 100)

\* The fine grid has 200 points from 0.5 * 1.89 to 2.3 * 1.89.
FineGridSize == 200
FineGrid ==
    linspace(FMul(Lit(5, 10), BohrPerAngstrom), FMul(Lit(23, 10), BohrPerAngstrom),
             FineGridSize)

mH == FromInt(1836)
mF == FromInt(34883)

expected_r_eq_angstroms == Lit(916080402, 1000000000)
expected_mu == Lit(174419750, 100000)
expected_k == Lit(647255984, 1000000000)
expected_energy_ev == Lit(524185145, 1000000000)
expected_acceleration == FDiv(Lit(-625574009, 1000000000), FromInt(10000))
eVPerHartree == Lit(27211, 1000)

(***************************************************************************)
(* The functions of the notebook                                           *)
(***************************************************************************)

\* The product over the difference of the masses.
ReducedMass_difference(m1, m2) == FDiv(FMul(m1, m2), FSub(m2, m1))

\* mu = mH * mF / (mH + mF)
ReducedMass(m1, m2) == FDiv(FMul(m1, m2), FAdd(m1, m2))

\* nu = 1 / (2 pi) * sqrt(k / mu)
Frequency(k, m) == FMul(FDiv(One, FMul(Two, np_pi)), FSqrt(FDiv(k, m)))

\* V(r) = 1/2 k (r - r_eq)^2 + V_0
HarmonicPotential(k, req, V0, r) ==
    FAdd(FMul(FMul(Half, k), FMul(FSub(r, req), FSub(r, req))), V0)

\* The curve the harmonic potential array lies on.
HarmonicCurve(k, req, V0) ==
    Field(<< Piece(req, req, << V0, Zero, FMul(Half, k), Zero >>) >>, Undef, Undef)

\* velocity_verlet with the position update's factor 1/2 forgotten.
velocity_verlet_no_half(r_curr, v_curr, mu, force_spline, dt) ==
    LET a_curr == FDiv(Evaluate(force_spline, r_curr), mu)
        r_new == FAdd(FAdd(r_curr, FMul(v_curr, dt)), FMul(a_curr, FMul(dt, dt)))
        a_new == FDiv(Evaluate(force_spline, r_new), mu)
        v_new == FAdd(v_curr, FMul(FMul(Half, FAdd(a_curr, a_new)), dt))
    IN  [r |-> r_new, v |-> v_new, evals |-> << r_curr, r_new >>, warned |-> {}]

\* velocity_verlet with the velocity updated from the old acceleration only.
velocity_verlet_one_force(r_curr, v_curr, mu, force_spline, dt) ==
    LET a_curr == FDiv(Evaluate(force_spline, r_curr), mu)
        r_new == FAdd(FAdd(r_curr, FMul(v_curr, dt)),
                      FMul(FMul(Half, a_curr), FMul(dt, dt)))
        v_new == FAdd(v_curr, FMul(a_curr, dt))
    IN  [r |-> r_new, v |-> v_new, evals |-> << r_curr, r_new >>, warned |-> {}]

\* One Velocity-Verlet update.  The force is evaluated at r_curr, then at
\* r_new; evals lists the positions where the force spline was called and
\* warned the warnings the calls issued (a spline call issues none).
velocity_verlet(r_curr, v_curr, mu, force_spline, dt) ==
    LET a_curr == FDiv(Evaluate(force_spline, r_curr), mu)
        r_new == FAdd(FAdd(r_curr, FMul(v_curr, dt)),
                      FMul(FMul(Half, a_curr), FMul(dt, dt)))
        a_new == FDiv(Evaluate(force_spline, r_new), mu)
        v_new == FAdd(v_curr, FMul(FMul(Half, FAdd(a_curr, a_new)), dt))
    IN  [r |-> r_new, v |-> v_new, evals |-> << r_curr, r_new >>, warned |-> {}]

\* r(t) = A sin(om t + phase) + r_eq
harmonic_position(om, amp, phase, req, t) ==
    FAdd(FMul(amp, np_sin(FAdd(FMul(om, t), phase))), req)

(***************************************************************************)
(* The potential energy curves the computed energies may lie on            *)
(***************************************************************************)
V0Hartree == FromInt(-100)

\* The piece that continues p beyond rb with the same value, slope and
\* curvature at rb, and cubic coefficient c4.
Continue(p, rb, c4) ==
    LET d1 == [p EXCEPT !.c = << p.c[2], FMul(Two, p.c[3]), FMul(FromInt(3), p.c[4]), Zero >>]
        d2 == [d1 EXCEPT !.c = << d1.c[2], FMul(Two, d1.c[3]), Zero, Zero >>]
    IN  Piece(rb, rb, << EvaluatePiece(p, rb), EvaluatePiece(d1, rb),
                         FMul(Half, EvaluatePiece(d2, rb)), c4 >>)

\* A well about r0 with force constant k: V0 + k/2 x^2 + cL x^3 left of r0
\* and V0 + k/2 x^2 + cR x^3 right of it.
Well(r0, k, cL, cR) ==
    << Piece(r0, r0, << V0Hartree, Zero, FMul(Half, k), cL >>),
       Piece(r0, r0, << V0Hartree, Zero, FMul(Half, k), cR >>) >>

Curve(pieces) == Field(pieces, Undef, Undef)

Midpoint(a, b) == FMul(Half, FAdd(a, b))

\* The anharmonic coefficient of the HF curve, and where its outer piece
\* starts (1.7 Angstrom).
Anharmonic == Lit(147469, 1000000)
OuterKnot == FMul(r_array[17], BohrPerAngstrom)

\* The HF curve: its minimum on the fine grid is at index 46, with the
\* expected force constant and the expected acceleration at 3 Bohr.
HFCurve(r0, k, g) ==
    LET w == Well(r0, k, FNeg(g), FNeg(g))
    IN  Curve(<< w[1], w[2], Continue(w[2], OuterKnot, Lit(2, 10)) >>)

Surfaces ==
    LET G == FineGrid
        k == expected_k
    IN  { HFCurve(G[46], k, Anharmonic),                           \* the HF molecule
          HFCurve(G[46], FMul(Two, k), Anharmonic),                \* a stiffer bond
          HFCurve(G[46], k, Lit(1, 10)),                           \* a less anharmonic bond
          HFCurve(G[60], k, Anharmonic),                           \* a longer bond
          Curve(Well(Midpoint(G[46], G[47]), k, Zero, Zero)),      \* two equal grid minima
          Curve(Well(Midpoint(G[100], G[101]), k, Zero, Zero)),
          Curve(Well(G[46], Zero, Zero, Zero)),                    \* constant energy
          Curve(Well(G[46], Zero, FromInt(-1), One)),              \* no curvature at the minimum
          Curve(Well(G[46], Lit(-1, 100), FromInt(-1), One)),      \* negative curvature there
          Curve(Well(G[46], FNeg(k), Zero, Zero)) }                \* no minimum inside

(***************************************************************************)
(* The state: the notebook's names, the cell to run next (pc) and the      *)
(* exception that stopped the run (err).                                   *)
(***************************************************************************)
VARIABLES
    surface,                  \* the curve the computed energies lie on
    ccsd_energy_array, r_array_au, ccsd_energy_spline, negative_ccsd_energy_spline,
    r_array_fine_au, ccsd_energy_array_fine,
    ccsd_force_spline, ccsd_energy_first_derivative_spline,
    r_eq_idx, ccsd_r_eq,
    mu, ccsd_curvature_spline, ccsd_k, ccsd_nu, ccsd_omega,
    harmonic_potential_array, test_acceleration,
    n_steps, dt, x0, amplitude, v0, harmonic_force_spline,
    harmonic_r_vs_t, harmonic_v_vs_t, ccsd_r_vs_t, ccsd_v_vs_t, analytic_r_vs_t, t_array,
    i,                        \* the loop variable of the trajectory loop
    writes,                   \* how often the loop and the setup stored each trajectory index
    pc, err,
    step_in, step_out, step_back, step_flip,   \* one call of velocity_verlet, reversed
    samples, built,                   \* one spline construction
    i_ccsd, i_harmonic, i_time        \* the loop variable of each part of the loop body run on its own

dataVars == << surface, ccsd_energy_array, r_array_au, ccsd_energy_spline,
               negative_ccsd_energy_spline >>
gridVars == << r_array_fine_au, ccsd_energy_array_fine >>
forceVars == << ccsd_force_spline, ccsd_energy_first_derivative_spline >>
eqVars == << r_eq_idx, ccsd_r_eq >>
freqVars == << mu, ccsd_curvature_spline, ccsd_k, ccsd_nu, ccsd_omega >>
harmVars == << harmonic_potential_array, test_acceleration >>
setupVars == << n_steps, dt, x0, amplitude, v0, harmonic_force_spline >>
trajVars == << harmonic_r_vs_t, harmonic_v_vs_t, ccsd_r_vs_t, ccsd_v_vs_t,
               analytic_r_vs_t, t_array, i, writes >>
stepVars == << step_in, step_out, step_back, step_flip >>
buildVars == << samples, built >>
workerVars == << i_ccsd, i_harmonic, i_time >>
notebookVars == << dataVars, gridVars, forceVars, eqVars, freqVars, harmVars,
                   setupVars, trajVars, pc, err >>
vars == << notebookVars, stepVars, buildVars, workerVars >>

NoArray == << >>
NoStep == [r |-> Undef, v |-> Undef, evals |-> << >>, warned |-> {}]

\* Nothing is bound before the first cell runs.
NotebookInit ==
    /\ surface = NoField /\ ccsd_energy_array = NoArray /\ r_array_au = NoArray
    /\ ccsd_energy_spline = NoField /\ negative_ccsd_energy_spline = NoField
    /\ r_array_fine_au = NoArray /\ ccsd_energy_array_fine = NoArray
    /\ ccsd_force_spline = NoField /\ ccsd_energy_first_derivative_spline = NoField
    /\ r_eq_idx = -1 /\ ccsd_r_eq = Undef
    /\ mu = Undef /\ ccsd_curvature_spline = NoField
    /\ ccsd_k = Undef /\ ccsd_nu = Undef /\ ccsd_omega = Undef
    /\ harmonic_potential_array = NoArray /\ test_acceleration = Undef
    /\ n_steps = 0 /\ dt = Undef /\ x0 = Undef /\ amplitude = Undef /\ v0 = Undef
    /\ harmonic_force_spline = NoField
    /\ harmonic_r_vs_t = NoArray /\ harmonic_v_vs_t = NoArray
    /\ ccsd_r_vs_t = NoArray /\ ccsd_v_vs_t = NoArray
    /\ analytic_r_vs_t = NoArray /\ t_array = NoArray
    /\ i = 0 /\ writes = NoArray
    /\ i_ccsd = 0 /\ i_harmonic = 0 /\ i_time = 0
    /\ err = "none"

StepIdle == step_in = << >> /\ step_out = NoStep /\ step_back = NoStep /\ step_flip = NoStep
BuildIdle == samples = NoArray /\ built = [raised |-> FALSE, spline |-> NoField]

Init == NotebookInit /\ pc = "energies" /\ StepIdle /\ BuildIdle

\* An assert that fails stops the run in the cell that holds it.
Expect(ok, next) ==
    IF ok THEN pc' = next /\ err' = err
    ELSE pc' = "failed" /\ err' = "AssertionError"

\* The energies of the molecule at the 24 bond lengths (computed outside).
CellEnergies(curve) ==
    /\ pc = "energies"
    /\ surface' = curve
    /\ r_array_au' = [j \in DOMAIN r_array |-> FMul(r_array[j], BohrPerAngstrom)]
    /\ ccsd_energy_array' = [j \in DOMAIN r_array |-> Evaluate(curve, r_array_au'[j])]
    /\ pc' = "spline"
    /\ UNCHANGED << ccsd_energy_spline, negative_ccsd_energy_spline, gridVars, forceVars,
                    eqVars, freqVars, harmVars, setupVars, trajVars, err, stepVars,
                    buildVars,
                    workerVars >>

\* ccsd_energy_spline and negative_ccsd_energy_spline
CellSpline ==
    /\ pc = "spline"
    /\ LET s == InterpolatedUnivariateSpline(r_array_au, surface)
           n == InterpolatedUnivariateSpline(r_array_au, Negate(surface))
       IN  IF s.raised
           THEN /\ pc' = "failed" /\ err' = "ValueError"
                /\ UNCHANGED << ccsd_energy_spline, negative_ccsd_energy_spline >>
           ELSE /\ ccsd_energy_spline' = s.spline
                /\ negative_ccsd_energy_spline' = n.spline
                /\ pc' = "fine" /\ err' = err
    /\ UNCHANGED << surface, ccsd_energy_array, r_array_au, gridVars, forceVars, eqVars,
                    freqVars, harmVars, setupVars, trajVars, stepVars, buildVars,
                    workerVars >>

\* The fine grid and the energies on it.
CellFine ==
    /\ pc = "fine"
    /\ r_array_fine_au' = FineGrid
    /\ ccsd_energy_array_fine' =
          [j \in DOMAIN r_array_fine_au' |-> Evaluate(ccsd_energy_spline, r_array_fine_au'[j])]
    /\ pc' = "force"
    /\ UNCHANGED << dataVars, forceVars, eqVars, freqVars, harmVars, setupVars, trajVars,
                    err, stepVars, buildVars,
                    workerVars >>

\* The force is the derivative of the negative energy spline.
CellForce ==
    /\ pc = "force"
    /\ ccsd_force_spline' = Derivative(negative_ccsd_energy_spline)
    /\ ccsd_energy_first_derivative_spline' = Derivative(ccsd_energy_spline)
    /\ pc' = "equilibrium"
    /\ UNCHANGED << dataVars, gridVars, eqVars, freqVars, harmVars, setupVars, trajVars,
                    err, stepVars, buildVars,
                    workerVars >>

\* r_eq_idx = np.argmin(ccsd_energy_array_fine); ccsd_r_eq = r_array_fine_au[r_eq_idx]
CellEquilibrium ==
    /\ pc = "equilibrium"
    /\ r_eq_idx' = argmin(ccsd_energy_array_fine)
    /\ ccsd_r_eq' = r_array_fine_au[r_eq_idx']
    /\ Expect(isclose(FDiv(ccsd_r_eq', BohrPerAngstrom), expected_r_eq_angstroms),
              "frequency")
    /\ UNCHANGED << dataVars, gridVars, forceVars, freqVars, harmVars, setupVars, trajVars,
                    stepVars, buildVars,
                    workerVars >>

\* Reduced mass, force constant, frequency and vibrational energy.
CellFrequency ==
    /\ pc = "frequency"
    /\ mu' = ReducedMass(mH, mF)
    /\ ccsd_curvature_spline' = Derivative(ccsd_energy_first_derivative_spline)
    /\ ccsd_k' = Evaluate(ccsd_curvature_spline', ccsd_r_eq)
    /\ ccsd_nu' = Frequency(ccsd_k', mu')
    /\ ccsd_omega' = FMul(FMul(Two, np_pi), ccsd_nu')
    /\ Expect(/\ isclose(mu', expected_mu)
              /\ isclose(ccsd_k', expected_k)
              /\ isclose(FMul(ccsd_omega', eVPerHartree), expected_energy_ev),
              "harmonic")
    /\ UNCHANGED << dataVars, gridVars, forceVars, eqVars, harmVars, setupVars, trajVars,
                    stepVars, buildVars,
                    workerVars >>

\* harmonic_potential_array, with V_0 = E(r_eq)
CellHarmonic ==
    /\ pc = "harmonic"
    /\ harmonic_potential_array' =
          [j \in DOMAIN r_array_fine_au |->
              HarmonicPotential(ccsd_k, ccsd_r_eq, Evaluate(ccsd_energy_spline, ccsd_r_eq),
                                r_array_fine_au[j])]
    /\ pc' = "acceleration"
    /\ UNCHANGED << dataVars, gridVars, forceVars, eqVars, freqVars, test_acceleration,
                    setupVars, trajVars, err, stepVars, buildVars,
                    workerVars >>

\* test_acceleration: the acceleration at a separation of 3 atomic units.
CellAcceleration ==
    /\ pc = "acceleration"
    /\ test_acceleration' = FDiv(Evaluate(ccsd_force_spline, FromInt(3)), mu)
    /\ Expect(isclose(test_acceleration', expected_acceleration), "setup")
    /\ UNCHANGED << dataVars, gridVars, forceVars, eqVars, freqVars,
                    harmonic_potential_array, setupVars, trajVars, stepVars, buildVars,
                    workerVars >>

\* n_steps = 10000 in the notebook; NSteps bounds the runs of Spec.
n_steps_notebook == 10000
NSteps == 8

\* range(n_steps)
LoopRange_from_zero(n) == [start |-> 0, stop |-> n]

\* range(1, n_steps)
LoopRange(n) == [start |-> 1, stop |-> n]

\* The index i itself.
Prev_same(j) == j

\* The index a loop iteration reads: i - 1.
Prev(j) == j - 1

\* The time of the step before: dt * (i - 1).
TimeAt_before(h, j) == FMul(h, FromInt(j - 1))

\* The time of index i: dt * i.
TimeAt(h, j) == FMul(h, FromInt(j))

\* The spline of harmonic_potential_array itself, differentiated.
HarmonicForceSpline_positive(grid, k, req, V0) ==
    LET s == InterpolatedUnivariateSpline(grid, HarmonicCurve(k, req, V0))
    IN  [raised |-> s.raised, spline |-> Derivative(s.spline)]

\* The initial velocity with the angular frequency left out.
InitialVelocity_no_omega(amp, om) == FMul(amp, np_cos(FDiv(np_pi, FromInt(4))))

\* The initial velocity without the cosine of the phase.
InitialVelocity_no_cos(amp, om) == FMul(amp, om)

\* v0 = amplitude * ccsd_omega * np.cos(np.pi / 4)
InitialVelocity(amp, om) == FMul(FMul(amp, om), np_cos(FDiv(np_pi, FromInt(4))))

\* The spline of -1 * harmonic_potential_array on the fine grid, differentiated.
HarmonicForceSpline(grid, k, req, V0) ==
    LET s == InterpolatedUnivariateSpline(grid, Negate(HarmonicCurve(k, req, V0)))
    IN  [raised |-> s.raised, spline |-> Derivative(s.spline)]

\* The setup of the trajectory cell, up to the loop.
CellSetup(n) ==
    /\ pc = "setup"
    /\ n_steps' = n
    /\ dt' = Lit(1, 10)
    /\ t_array' = zeros(n)
    /\ x0' = Lit(2, 10)
    /\ amplitude' = FDiv(x0', np_sin(FDiv(np_pi, FromInt(4))))
    /\ v0' = InitialVelocity(amplitude', ccsd_omega)
    /\ harmonic_r_vs_t' = [zeros(n) EXCEPT ![0] = FAdd(ccsd_r_eq, x0')]
    /\ harmonic_v_vs_t' = [zeros(n) EXCEPT ![0] = v0']
    /\ ccsd_r_vs_t' = [zeros(n) EXCEPT ![0] = FAdd(ccsd_r_eq, x0')]
    /\ ccsd_v_vs_t' = [zeros(n) EXCEPT ![0] = v0']
    /\ analytic_r_vs_t' = [zeros(n) EXCEPT ![0] = FAdd(ccsd_r_eq, x0')]
    /\ writes' = [j \in 0..(n - 1) |-> IF j = 0 THEN 1 ELSE 0]
    /\ LET h == HarmonicForceSpline(r_array_fine_au, ccsd_k, ccsd_r_eq,
                                    Evaluate(ccsd_energy_spline, ccsd_r_eq))
       IN  IF h.raised
           THEN /\ pc' = "failed" /\ err' = "ValueError"
                /\ UNCHANGED << harmonic_force_spline, i >>
           ELSE /\ harmonic_force_spline' = h.spline
                /\ i' = LoopRange(n).start
                /\ pc' = "loop" /\ err' = err
    /\ UNCHANGED << dataVars, gridVars, forceVars, eqVars, freqVars, harmVars, stepVars,
                    buildVars,
                    workerVars >>

\* One iteration of the loop: the time, the two Velocity-Verlet updates from
\* index i - 1 and the analytic position, all stored at index i.
LoopIteration ==
    /\ pc = "loop"
    /\ i < LoopRange(n_steps).stop
    /\ IF i >= n_steps
       THEN /\ pc' = "failed" /\ err' = "IndexError"
            /\ UNCHANGED trajVars
       ELSE LET c == velocity_verlet(At(ccsd_r_vs_t, Prev(i)), At(ccsd_v_vs_t, Prev(i)),
                                     mu, ccsd_force_spline, dt)
                h == velocity_verlet(At(harmonic_r_vs_t, Prev(i)),
                                     At(harmonic_v_vs_t, Prev(i)),
                                     mu, harmonic_force_spline, dt)
            IN  /\ t_array' = [t_array EXCEPT ![i] = TimeAt(dt, i)]
                /\ ccsd_r_vs_t' = [ccsd_r_vs_t EXCEPT ![i] = c.r]
                /\ ccsd_v_vs_t' = [ccsd_v_vs_t EXCEPT ![i] = c.v]
                /\ harmonic_r_vs_t' = [harmonic_r_vs_t EXCEPT ![i] = h.r]
                /\ harmonic_v_vs_t' = [harmonic_v_vs_t EXCEPT ![i] = h.v]
                /\ analytic_r_vs_t' =
                      [analytic_r_vs_t EXCEPT ![i] =
                          harmonic_position(ccsd_omega, amplitude, FDiv(np_pi, FromInt(4)),
                                            ccsd_r_eq, TimeAt(dt, i))]
                /\ writes' = [writes EXCEPT ![i] = @ + 1]
                /\ i' = i + 1
                /\ UNCHANGED << pc, err >>
    /\ UNCHANGED << dataVars, gridVars, forceVars, eqVars, freqVars, harmVars, setupVars,
                    stepVars, buildVars,
                    workerVars >>

\* The range is exhausted.
LoopExit ==
    /\ pc = "loop"
    /\ i >= LoopRange(n_steps).stop
    /\ pc' = "check"
    /\ UNCHANGED << dataVars, gridVars, forceVars, eqVars, freqVars, harmVars, setupVars,
                    trajVars, err, stepVars, buildVars,
                    workerVars >>

\* assert np.allclose(harmonic_r_vs_t, analytic_r_vs_t)
CellCheck ==
    /\ pc = "check"
    /\ Expect(allclose(harmonic_r_vs_t, analytic_r_vs_t), "done")
    /\ UNCHANGED << dataVars, gridVars, forceVars, eqVars, freqVars, harmVars, setupVars,
                    trajVars, stepVars, buildVars,
                    workerVars >>

\* The cells in the notebook's order, for the curves and the numbers of
\* steps given.
Cells(Curves, Lengths) ==
    \/ \E curve \in Curves : CellEnergies(curve)
    \/ CellSpline
    \/ CellFine
    \/ CellForce
    \/ CellEquilibrium
    \/ CellFrequency
    \/ CellHarmonic
    \/ CellAcceleration
    \/ \E n \in Lengths : CellSetup(n)
    \/ LoopIteration
    \/ LoopExit
    \/ CellCheck

Next == Cells(Surfaces, 1..NSteps)

Spec == Init /\ [][Next]_vars

\* The notebook as it is: the HF molecule and 10000 steps.
NextLong == Cells({HFCurve(FineGrid[46], expected_k, Anharmonic)}, {n_steps_notebook})

SpecLong == Init /\ [][NextLong]_vars

(***************************************************************************)
(* velocity_verlet on its own: one call from a given state, and the call   *)
(* that undoes it, with -dt or with the velocity negated before and after. *)
(***************************************************************************)
StepInput(r, v, m, force, h) == [r |-> r, v |-> v, mu |-> m, force |-> force, dt |-> h]

\* The force splines of the HF molecule and of its harmonic fit, as the
\* notebook builds them.
HFForce ==
    Derivative(Negate(Field(HFCurve(FineGrid[46], expected_k, Anharmonic).pieces,
                            FMul(r_array[0], BohrPerAngstrom),
                            FMul(r_array[23], BohrPerAngstrom))))
HFHarmonicForce ==
    HarmonicForceSpline(FineGrid, expected_k, FineGrid[46], V0Hartree).spline

\* A unit spring about r = 1 fitted on [1/2, 4].
UnitForce ==
    Derivative(Negate(Field(HarmonicCurve(One, One, Zero).pieces, Half, FromInt(4))))

StepInputs ==
    { StepInput(r, v, ReducedMass(mH, mF), f, Lit(1, 10)) :
        r \in { Lit(19, 10), Lit(15, 10), FromInt(3), Lit(5, 10), FromInt(5), Lit(434, 100) },
        v \in { Zero, Lit(38, 10000), Lit(-38, 10000), Lit(2, 10) },
        f \in { HFForce, HFHarmonicForce } }
    \cup
    { StepInput(r, v, Two, UnitForce, Half) :
        r \in { Lit(3, 2), Two, FromInt(3), Lit(1, 4) },
        v \in { Zero, Lit(1, 4), Lit(-1, 2), FromInt(2) } }

InitStep == NotebookInit /\ pc = "step" /\ BuildIdle
            /\ step_in \in StepInputs
            /\ step_out = NoStep /\ step_back = NoStep /\ step_flip = NoStep

StepForward ==
    /\ pc = "step" /\ step_out = NoStep
    /\ step_out' = velocity_verlet(step_in.r, step_in.v, step_in.mu, step_in.force, step_in.dt)
    /\ UNCHANGED << notebookVars, step_in, step_back, step_flip, buildVars,
                    workerVars >>

\* The step back with -dt.
StepBack ==
    /\ pc = "step" /\ step_out # NoStep /\ step_back = NoStep
    /\ step_back' = velocity_verlet(step_out.r, step_out.v, step_in.mu, step_in.force,
                                    FNeg(step_in.dt))
    /\ UNCHANGED << notebookVars, step_in, step_out, step_flip, buildVars,
                    workerVars >>

\* The step back with the velocity negated, +dt, and the velocity negated again.
StepFlip ==
    /\ pc = "step" /\ step_out # NoStep /\ step_flip = NoStep
    /\ step_flip' = [velocity_verlet(step_out.r, FNeg(step_out.v), step_in.mu,
                                     step_in.force, step_in.dt) EXCEPT !.v = FNeg(@)]
    /\ UNCHANGED << notebookVars, step_in, step_out, step_back, buildVars,
                    workerVars >>

NextStep == StepForward \/ StepBack \/ StepFlip

SpecStep == InitStep /\ [][NextStep]_vars

(***************************************************************************)
(* The loop body taken apart: the ab initio update, the harmonic update    *)
(* and the time and oracle stores each run through range(1, n_steps) with  *)
(* a loop variable of their own, in any order relative to each other.      *)
(***************************************************************************)

\* The state the ab initio update reads: index i - 1 of its own arrays.
CcsdState(j) == [r |-> At(ccsd_r_vs_t, Prev(j)), v |-> At(ccsd_v_vs_t, Prev(j))]

\* The harmonic update reading the position of the ab initio trajectory.
HarmonicState_shared(j) ==
    [r |-> At(ccsd_r_vs_t, Prev(j)), v |-> At(harmonic_v_vs_t, Prev(j))]

\* The state the harmonic update reads: index i - 1 of its own arrays.
HarmonicState(j) ==
    [r |-> At(harmonic_r_vs_t, Prev(j)), v |-> At(harmonic_v_vs_t, Prev(j))]

\* The three parts start from the head of the range.
Fork ==
    /\ pc = "loop"
    /\ pc' = "trajectories"
    /\ i_ccsd' = i /\ i_harmonic' = i /\ i_time' = i
    /\ UNCHANGED << dataVars, gridVars, forceVars, eqVars, freqVars, harmVars, setupVars,
                    trajVars, err, stepVars, buildVars >>

\* ccsd_r_vs_t[i], ccsd_v_vs_t[i] = velocity_verlet(..., ccsd_force_spline, dt)
CcsdStep ==
    /\ pc = "trajectories"
    /\ i_ccsd < LoopRange(n_steps).stop
    /\ LET c == velocity_verlet(CcsdState(i_ccsd).r, CcsdState(i_ccsd).v, mu,
                                ccsd_force_spline, dt)
       IN  /\ ccsd_r_vs_t' = [ccsd_r_vs_t EXCEPT ![i_ccsd] = c.r]
           /\ ccsd_v_vs_t' = [ccsd_v_vs_t EXCEPT ![i_ccsd] = c.v]
    /\ i_ccsd' = i_ccsd + 1
    /\ UNCHANGED << dataVars, gridVars, forceVars, eqVars, freqVars, harmVars, setupVars,
                    harmonic_r_vs_t, harmonic_v_vs_t, analytic_r_vs_t, t_array, i, writes,
                    pc, err, i_harmonic, i_time, stepVars, buildVars >>

\* harmonic_r_vs_t[i], harmonic_v_vs_t[i] = velocity_verlet(..., harmonic_force_spline, dt)
HarmonicStep ==
    /\ pc = "trajectories"
    /\ i_harmonic < LoopRange(n_steps).stop
    /\ LET h == velocity_verlet(HarmonicState(i_harmonic).r, HarmonicState(i_harmonic).v,
                                mu, harmonic_force_spline, dt)
       IN  /\ harmonic_r_vs_t' = [harmonic_r_vs_t EXCEPT ![i_harmonic] = h.r]
           /\ harmonic_v_vs_t' = [harmonic_v_vs_t EXCEPT ![i_harmonic] = h.v]
    /\ i_harmonic' = i_harmonic + 1
    /\ UNCHANGED << dataVars, gridVars, forceVars, eqVars, freqVars, harmVars, setupVars,
                    ccsd_r_vs_t, ccsd_v_vs_t, analytic_r_vs_t, t_array, i, writes,
                    pc, err, i_ccsd, i_time, stepVars, buildVars >>

\* t_array[i] = dt*i and analytic_r_vs_t[i] = harmonic_position(..., dt * i)
TimeStep ==
    /\ pc = "trajectories"
    /\ i_time < LoopRange(n_steps).stop
    /\ t_array' = [t_array EXCEPT ![i_time] = TimeAt(dt, i_time)]
    /\ analytic_r_vs_t' =
          [analytic_r_vs_t EXCEPT ![i_time] =
              harmonic_position(ccsd_omega, amplitude, FDiv(np_pi, FromInt(4)),
                                ccsd_r_eq, TimeAt(dt, i_time))]
    /\ i_time' = i_time + 1
    /\ UNCHANGED << dataVars, gridVars, forceVars, eqVars, freqVars, harmVars, setupVars,
                    harmonic_r_vs_t, harmonic_v_vs_t, ccsd_r_vs_t, ccsd_v_vs_t, i, writes,
                    pc, err, i_ccsd, i_harmonic, stepVars, buildVars >>

\* Every part has exhausted its range.
Join ==
    /\ pc = "trajectories"
    /\ i_ccsd >= LoopRange(n_steps).stop
    /\ i_harmonic >= LoopRange(n_steps).stop
    /\ i_time >= LoopRange(n_steps).stop
    /\ pc' = "joined"
    /\ UNCHANGED << dataVars, gridVars, forceVars, eqVars, freqVars, harmVars, setupVars,
                    trajVars, err, stepVars, buildVars, workerVars >>

NextInterleaved ==
    \/ \E curve \in Surfaces : CellEnergies(curve)
    \/ CellSpline
    \/ CellFine
    \/ CellForce
    \/ CellEquilibrium
    \/ CellFrequency
    \/ CellHarmonic
    \/ CellAcceleration
    \/ \E n \in 1..NSteps : CellSetup(n)
    \/ Fork
    \/ CcsdStep
    \/ HarmonicStep
    \/ TimeStep
    \/ Join

SpecInterleaved == Init /\ [][NextInterleaved]_vars

(***************************************************************************)
(* The construction of a spline on its own, from any short sample set and  *)
(* from the notebook's 24 bond lengths.                                    *)
(***************************************************************************)
MaxSamples == 5

SampleValues == { FMul(r_array[j], BohrPerAngstrom) : j \in 0..4 }

SampleSets ==
    { array(x) : x \in UNION { [1..n -> SampleValues] : n \in 0..MaxSamples } }
    \cup { [j \in DOMAIN r_array |-> FMul(r_array[j], BohrPerAngstrom)] }

InitBuild == NotebookInit /\ pc = "build" /\ StepIdle
             /\ samples \in SampleSets
             /\ built = [raised |-> FALSE, spline |-> NoField]

Build ==
    /\ pc = "build"
    /\ pc' = "built"
    /\ built' = InterpolatedUnivariateSpline(samples,
                    HFCurve(FineGrid[46], expected_k, Anharmonic))
    /\ UNCHANGED << dataVars, gridVars, forceVars, eqVars, freqVars, harmVars, setupVars,
                    trajVars, err, stepVars, samples,
                    workerVars >>

NextBuild == Build

SpecBuild == InitBuild /\ [][NextBuild]_vars

(***************************************************************************)
(* Properties of one Velocity-Verlet step (SpecStep)                       *)
(***************************************************************************)

\* C1: one step from (r_curr, v_curr) returns exactly
\*   r_new = r_curr + v_curr dt + 0.5 a_curr dt^2 and
\*   v_new = v_curr + 0.5 (a_curr + a_new) dt
\* with a_curr = F(r_curr)/mu and a_new = F(r_new)/mu, each operation
\* rounded once in this order, and the force is evaluated exactly twice,
\* first at r_curr and then at r_new.
C1_StepFormula ==
    step_out # NoStep =>
        LET F(r) == Evaluate(step_in.force, r)
            a_curr == RDiv(F(step_in.r), step_in.mu).v
            drift == RMul(step_in.v, step_in.dt).v
            kick == RMul(RMul(Half, a_curr).v, RMul(step_in.dt, step_in.dt).v).v
            r_new == RAdd(RAdd(step_in.r, drift).v, kick).v
            a_new == RDiv(F(r_new), step_in.mu).v
            v_new == RAdd(step_in.v, RMul(RMul(Half, RAdd(a_curr, a_new).v).v, step_in.dt).v).v
        IN  /\ step_out.r = r_new
            /\ step_out.v = v_new
            /\ Len(step_out.evals) = 2
            /\ step_out.evals[1] = step_in.r
            /\ step_out.evals[2] = step_out.r

\* A step of the HF molecule that moved the bond and changed its velocity.
C1_Witness ==
    /\ step_out # NoStep
    /\ step_in.force = HFForce
    /\ step_out.r # step_in.r
    /\ step_out.v # step_in.v

\* C4 as stated: stepping forward and then back with -dt returns exactly
\* the state the forward step started from.
C4_ExactReversal ==
    step_back # NoStep => step_back.r = step_in.r /\ step_back.v = step_in.v

\* The inputs whose two steps compute without any rounding: the unit spring
\* with dyadic position and velocity.
ExactArithmetic == step_in.force = UnitForce

\* C4 as amended: the step back with -dt and the step back with the
\* velocity negated before and after return the same state; that state is
\* (r, v) exactly where the arithmetic of the two steps is exact, and is
\* (r, v) to within rounding error (np.isclose) everywhere.
C4_ReversalUpToRounding ==
    /\ (step_back # NoStep /\ step_flip # NoStep) =>
          step_back.r = step_flip.r /\ step_back.v = step_flip.v
    /\ (step_back # NoStep /\ ExactArithmetic) =>
          step_back.r = step_in.r /\ step_back.v = step_in.v
    /\ step_back # NoStep =>
          isclose(step_back.r, step_in.r) /\ isclose(step_back.v, step_in.v)

\* A reversed step of the HF molecule that misses its start by rounding,
\* the same way in both forms of the reversal.
C4_Witness ==
    /\ step_back # NoStep /\ step_flip # NoStep
    /\ step_in.force = HFHarmonicForce
    /\ step_out.r # step_in.r
    /\ step_back.r # step_in.r

\* C10: a step that evaluates the force outside the fitted domain of the
\* force spline returns a state and reports an ExtrapolationWarning.
C10_ExtrapolationReported ==
    (step_out # NoStep /\ \E j \in 1..Len(step_out.evals) :
                              ~InDomain(step_in.force, step_out.evals[j]))
        => IsNum(step_out.r) /\ IsNum(step_out.v)
           /\ "ExtrapolationWarning" \in step_out.warned

(***************************************************************************)
(* Properties of the notebook's run (Spec)                                 *)
(***************************************************************************)
InTrajectory == pc \in {"loop", "check", "done"}

\* C2: the position and velocity arrays have length exactly n_steps, index
\* 0 holds the initial state (ccsd_r_eq + x0, v0), every index from 1 to
\* n_steps - 1 is stored exactly once by the time the loop has finished
\* (and not yet at all before its iteration), index 0 is never stored by
\* the loop, and no store falls outside 0..n_steps-1.
C2_TrajectoryShape ==
    /\ err # "IndexError"
    /\ InTrajectory =>
        /\ DOMAIN harmonic_r_vs_t = 0..(n_steps - 1)
        /\ DOMAIN harmonic_v_vs_t = 0..(n_steps - 1)
        /\ DOMAIN ccsd_r_vs_t = 0..(n_steps - 1)
        /\ DOMAIN ccsd_v_vs_t = 0..(n_steps - 1)
        /\ DOMAIN writes = 0..(n_steps - 1)
        /\ harmonic_r_vs_t[0] = FAdd(ccsd_r_eq, x0) /\ harmonic_v_vs_t[0] = v0
        /\ ccsd_r_vs_t[0] = FAdd(ccsd_r_eq, x0) /\ ccsd_v_vs_t[0] = v0
        /\ writes[0] = 1
        /\ \A j \in 1..(n_steps - 1) : writes[j] <= 1
        /\ pc \in {"check", "done"} => \A j \in 1..(n_steps - 1) : writes[j] = 1

\* A finished run of several steps.
C2_Witness == pc = "done" /\ n_steps >= 4 /\ writes[n_steps - 1] = 1

\* C3: at every moment the indices stored so far are 1..i-1, each holding
\* velocity_verlet applied to the state stored at the index before it, and
\* the indices from i on are untouched: the trajectory is filled serially
\* in increasing index order and is a function of its initial state alone.
C3_SerialRecurrence ==
    InTrajectory =>
        \A j \in 1..(n_steps - 1) :
            IF j < i
            THEN /\ writes[j] = 1
                 /\ LET c == velocity_verlet(ccsd_r_vs_t[j - 1], ccsd_v_vs_t[j - 1], mu,
                                             ccsd_force_spline, dt)
                        h == velocity_verlet(harmonic_r_vs_t[j - 1], harmonic_v_vs_t[j - 1],
                                             mu, harmonic_force_spline, dt)
                    IN  /\ ccsd_r_vs_t[j] = c.r /\ ccsd_v_vs_t[j] = c.v
                        /\ harmonic_r_vs_t[j] = h.r /\ harmonic_v_vs_t[j] = h.v
            ELSE /\ writes[j] = 0
                 /\ ccsd_r_vs_t[j] = Zero /\ ccsd_v_vs_t[j] = Zero
                 /\ harmonic_r_vs_t[j] = Zero /\ harmonic_v_vs_t[j] = Zero

\* The loop in the middle of a run: indices 1 and 2 stored, index 3 and
\* later not yet.
C3_Witness ==
    /\ pc = "loop" /\ i = 3 /\ n_steps >= 5
    /\ ccsd_r_vs_t[2] # ccsd_r_vs_t[1] /\ ccsd_r_vs_t[3] = Zero

\* C7: r_eq is the grid point whose energy is the minimum over the whole
\* fine grid, and of several grid points sharing the minimum the one with
\* the smallest index.
C7_FirstMinimum ==
    r_eq_idx # -1 =>
        /\ r_eq_idx \in DOMAIN r_array_fine_au
        /\ ccsd_r_eq = r_array_fine_au[r_eq_idx]
        /\ \A j \in DOMAIN ccsd_energy_array_fine :
              /\ FLeq(ccsd_energy_array_fine[r_eq_idx], ccsd_energy_array_fine[j])
              /\ j < r_eq_idx => ccsd_energy_array_fine[j] # ccsd_energy_array_fine[r_eq_idx]

\* Two grid points share the minimum and the first of them is taken.
C7_Witness ==
    /\ r_eq_idx = 46
    /\ ccsd_energy_array_fine[47] = ccsd_energy_array_fine[46]

Distinct(x) == Cardinality({ x[j] : j \in DOMAIN x })
Ascending(x) == \A j, l \in DOMAIN x : j < l => FLess(x[j], x[l])
NotebookSamples == [j \in DOMAIN r_array |-> FMul(r_array[j], BohrPerAngstrom)]

\* C9: the construction fails exactly when the samples have fewer than 4
\* distinct separations or separations that are not strictly increasing
\* (duplicates included), it produces no spline then, and it succeeds for
\* the notebook's 24 bond lengths.
C9_ConstructionFails ==
    pc = "built" =>
        /\ built.raised <=> (Distinct(samples) < 4 \/ ~Ascending(samples))
        /\ built.raised => built.spline = NoField
        /\ ~built.raised => built.spline # NoField
        /\ samples = NotebookSamples => ~built.raised /\ size(samples) = 24

\* Five samples, four of them distinct: enough points, but one repeated.
C9_Witness ==
    pc = "built" /\ built.raised /\ size(samples) = 5 /\ Distinct(samples) = 4

(***************************************************************************)
(* Properties of the notebook's 10000 steps (SpecLong)                     *)
(***************************************************************************)

\* 0.5 mu v^2 + V(r) of the harmonic trajectory at index j, V the harmonic
\* potential with minimum V0.
HarmonicEnergy(j, V0) ==
    FAdd(FMul(FMul(Half, mu), FMul(harmonic_v_vs_t[j], harmonic_v_vs_t[j])),
         HarmonicPotential(ccsd_k, ccsd_r_eq, V0, harmonic_r_vs_t[j]))

Drift(j, V0) == FAbs(FSub(HarmonicEnergy(j, V0), HarmonicEnergy(0, V0)))

\* C5: at every step of the harmonic trajectory the total energy is within
\* 0.1% of its initial value, with the potential measured from its minimum
\* and with the potential as the notebook tabulates it (V0 = E(r_eq)).
C5_EnergyDrift ==
    InTrajectory =>
        /\ FLess(Drift(i - 1, Zero), FMul(Lit(1, 1000), FAbs(HarmonicEnergy(0, Zero))))
        /\ FLess(Drift(i - 1, V0Hartree),
                 FMul(Lit(1, 1000), FAbs(HarmonicEnergy(0, V0Hartree))))

\* The run of 10000 steps under way, the energy no longer the initial one
\* to the last bit.
C5_Witness ==
    /\ pc = "loop" /\ n_steps = n_steps_notebook /\ i > 1
    /\ HarmonicEnergy(i - 1, Zero) # HarmonicEnergy(0, Zero)

OracleAt(j) ==
    harmonic_position(ccsd_omega, amplitude, FDiv(np_pi, FromInt(4)), ccsd_r_eq,
                      FMul(dt, FromInt(j)))

\* C6: the harmonic trajectory agrees with r_eq + A sin(omega t + phase) at
\* every index, index 0 included, within np.isclose's tolerance and within
\* 1e-3; the stored analytic positions are the oracle's values, and the
\* notebook's asserts, the final np.allclose included, pass.
C6_AnalyticAgreement ==
    /\ pc # "failed"
    /\ InTrajectory =>
        LET oracle == OracleAt(i - 1)
        IN  /\ isclose(harmonic_r_vs_t[i - 1], oracle)
            /\ FLess(FAbs(FSub(harmonic_r_vs_t[i - 1], oracle)), Lit(1, 1000))
            /\ i > 1 => analytic_r_vs_t[i - 1] = oracle

\* The run of 10000 steps under way: the bond has moved and the analytic
\* position of the same index is stored.
C6_Witness ==
    /\ pc = "loop" /\ n_steps = n_steps_notebook /\ i = 4
    /\ harmonic_r_vs_t[3] # harmonic_r_vs_t[0]
    /\ analytic_r_vs_t[3] # Zero

(***************************************************************************)
(* Properties of the derived quantities (Spec)                             *)
(***************************************************************************)

\* C11: once the force spline is built, the force equals the negated first
\* derivative of the energy spline at every point of the fine grid and at
\* every bond length the spline was fitted to (all of them in the domain),
\* and the force spline is the negated derivative spline: negating and
\* differentiating commute.
C11_ForceSign ==
    ccsd_force_spline # NoField =>
        /\ ccsd_force_spline = Negate(ccsd_energy_first_derivative_spline)
        /\ \A j \in DOMAIN r_array_fine_au :
              /\ InDomain(ccsd_force_spline, r_array_fine_au[j])
              /\ Evaluate(ccsd_force_spline, r_array_fine_au[j]) =
                    FNeg(Evaluate(ccsd_energy_first_derivative_spline, r_array_fine_au[j]))
        /\ \A j \in DOMAIN r_array_au :
              Evaluate(ccsd_force_spline, r_array_au[j]) =
                 FNeg(Evaluate(ccsd_energy_first_derivative_spline, r_array_au[j]))

\* The force spline is built and pushes a compressed bond apart: the force
\* at the short end of the grid is positive where the energy falls.
C11_Witness ==
    /\ pc = "equilibrium"
    /\ Evaluate(ccsd_force_spline, r_array_fine_au[0]).m > 0
    /\ Evaluate(ccsd_energy_first_derivative_spline, r_array_fine_au[0]).m < 0

\* C12: the reduced mass, once computed, is the rounded quotient of the
\* product and the sum of the two masses, for 1836 and 34883 it is
\* 1836 * 34883 / 36719 = 1744.1975 to the four decimals stated (and to
\* np.isclose's tolerance of the notebook's expected value), every cell
\* after the frequency cell finds it computed, and no step changes it
\* once it is computed.
C12_ReducedMass ==
    /\ [](mu # Undef =>
            /\ mu = FDiv(FMul(mH, mF), FAdd(mH, mF))
            /\ FMul(mH, mF) = FromInt(1836 * 34883) /\ FAdd(mH, mF) = FromInt(36719)
            /\ isclose(mu, expected_mu)
            /\ FLess(FAbs(FSub(mu, Lit(17441975, 10000))), Lit(5, 100000)))
    /\ [](pc \in {"harmonic", "acceleration", "setup", "loop", "check", "done"} =>
            IsNum(mu))
    /\ [][mu # Undef => mu' = mu]_vars

\* The reduced mass is computed and the trajectory loop is dividing forces
\* by it.
C12_Witness ==
    /\ pc = "loop" /\ i = 2
    /\ IsNum(mu) /\ FLess(FromInt(1744), mu) /\ FLess(mu, FromInt(1745))

\* C13: the time array has one entry per trajectory index; the entry at
\* index 0 is 0 and the entry at every index j the loop has stored is the
\* float product dt * j (one tenth of j to within rounding); the analytic
\* position stored at index j is the oracle evaluated at that stored time,
\* and at index 0 it is the initial position, which is the oracle's value
\* at time 0 to within rounding; a finished loop has stored every index.
C13_TimeGrid ==
    InTrajectory =>
        /\ DOMAIN t_array = 0..(n_steps - 1)
        /\ DOMAIN analytic_r_vs_t = 0..(n_steps - 1)
        /\ t_array[0] = Zero
        /\ analytic_r_vs_t[0] = FAdd(ccsd_r_eq, x0)
        /\ isclose(analytic_r_vs_t[0],
                   harmonic_position(ccsd_omega, amplitude, FDiv(np_pi, FromInt(4)),
                                     ccsd_r_eq, t_array[0]))
        /\ \A j \in 1..(n_steps - 1) :
              IF j < i
              THEN /\ t_array[j] = FMul(dt, FromInt(j))
                   /\ isclose(t_array[j], Lit(j, 10))
                   /\ analytic_r_vs_t[j] =
                         harmonic_position(ccsd_omega, amplitude, FDiv(np_pi, FromInt(4)),
                                           ccsd_r_eq, t_array[j])
              ELSE t_array[j] = Zero /\ analytic_r_vs_t[j] = Zero
        /\ pc \in {"check", "done"} => i >= n_steps

\* A finished loop of seven steps: the last time stored is 0.7 and the
\* oracle has moved on from the initial position.
C13_Witness ==
    /\ pc = "check" /\ n_steps = 8
    /\ t_array[7] = FMul(dt, FromInt(7)) /\ FLess(t_array[6], t_array[7])
    /\ analytic_r_vs_t[7] # analytic_r_vs_t[0]

\* C14: r_eq, k and omega are unset until their cells run and no
\* trajectory array exists before them; in every state of the trajectory
\* simulation they are computed numbers, r_eq being the grid point at
\* r_eq_idx, and the initial position and velocity of both trajectories
\* are r_eq + x0 and amplitude * omega * cos(pi / 4), the harmonic force
\* vanishing at r_eq; and no step changes r_eq, k or omega once they are
\* computed, so each is assigned once, before the first integrator step.
C14_EquilibriumOnce ==
    /\ [](/\ pc \in {"energies", "spline", "fine", "force", "equilibrium"} =>
              r_eq_idx = -1 /\ ccsd_r_eq = Undef
          /\ pc \in {"energies", "spline", "fine", "force", "equilibrium", "frequency"} =>
              ccsd_k = Undef /\ ccsd_omega = Undef
          /\ (ccsd_r_eq = Undef \/ ccsd_k = Undef \/ ccsd_omega = Undef) =>
              /\ harmonic_r_vs_t = NoArray /\ harmonic_v_vs_t = NoArray
              /\ ccsd_r_vs_t = NoArray /\ ccsd_v_vs_t = NoArray
          /\ InTrajectory =>
              /\ IsNum(ccsd_r_eq) /\ IsNum(ccsd_k) /\ IsNum(ccsd_omega)
              /\ ccsd_r_eq = r_array_fine_au[r_eq_idx]
              /\ harmonic_r_vs_t[0] = FAdd(ccsd_r_eq, x0)
              /\ ccsd_r_vs_t[0] = FAdd(ccsd_r_eq, x0)
              /\ harmonic_v_vs_t[0] =
                    FMul(FMul(amplitude, ccsd_omega), np_cos(FDiv(np_pi, FromInt(4))))
              /\ ccsd_v_vs_t[0] = harmonic_v_vs_t[0]
              /\ Evaluate(harmonic_force_spline, ccsd_r_eq) = Zero
              /\ Evaluate(Derivative(harmonic_force_spline), ccsd_r_eq) = FNeg(ccsd_k))
    /\ [][/\ r_eq_idx # -1 => r_eq_idx' = r_eq_idx
          /\ ccsd_r_eq # Undef => ccsd_r_eq' = ccsd_r_eq
          /\ ccsd_k # Undef => ccsd_k' = ccsd_k
          /\ ccsd_omega # Undef => ccsd_omega' = ccsd_omega]_vars

\* The integrator has taken its first steps from the initial state derived
\* from the equilibrium, which is still the one computed before the loop.
C14_Witness ==
    /\ pc = "loop" /\ i = 3
    /\ IsNum(ccsd_omega) /\ ccsd_k.m > 0 /\ r_eq_idx = 46
    /\ ccsd_r_vs_t[2] # FAdd(ccsd_r_eq, x0)

(***************************************************************************)
(* Properties of the loop body taken apart (SpecInterleaved)               *)
(***************************************************************************)

\* The first n states of a trajectory computed alone from the initial
\* state: each state is velocity_verlet of the one before it.
RECURSIVE RunAlone(_, _, _)
RunAlone(force, hist, n) ==
    IF Len(hist) >= n THEN hist
    ELSE RunAlone(force,
                  Append(hist, velocity_verlet(hist[Len(hist)].r, hist[Len(hist)].v, mu,
                                               force, dt)),
                  n)

InitialState == << [r |-> FAdd(ccsd_r_eq, x0), v |-> v0] >>

\* C15: however the steps of the ab initio trajectory, of the harmonic
\* trajectory and of the time and oracle stores are interleaved, each
\* trajectory holds at the indices it has stored the states of the
\* trajectory computed alone from the shared initial state and zeros
\* elsewhere; a step of one trajectory stores one index of its own arrays
\* and leaves the other trajectory's arrays and loop variable unchanged;
\* and no step changes the force splines, the mass, dt or n_steps.
C15_Independent ==
    /\ [](pc \in {"trajectories", "joined"} =>
            LET alone_ccsd == RunAlone(ccsd_force_spline, InitialState, i_ccsd)
                alone_harmonic == RunAlone(harmonic_force_spline, InitialState, i_harmonic)
            IN  \A j \in 0..(n_steps - 1) :
                    /\ ccsd_r_vs_t[j] = IF j < i_ccsd THEN alone_ccsd[j + 1].r ELSE Zero
                    /\ ccsd_v_vs_t[j] = IF j < i_ccsd THEN alone_ccsd[j + 1].v ELSE Zero
                    /\ harmonic_r_vs_t[j] =
                          IF j < i_harmonic THEN alone_harmonic[j + 1].r ELSE Zero
                    /\ harmonic_v_vs_t[j] =
                          IF j < i_harmonic THEN alone_harmonic[j + 1].v ELSE Zero)
    /\ [][pc = "trajectories" =>
            /\ UNCHANGED << mu, dt, n_steps, ccsd_force_spline, harmonic_force_spline >>
            /\ (ccsd_r_vs_t' # ccsd_r_vs_t \/ ccsd_v_vs_t' # ccsd_v_vs_t
                    \/ i_ccsd' # i_ccsd) =>
                  /\ UNCHANGED << harmonic_r_vs_t, harmonic_v_vs_t, i_harmonic >>
                  /\ \A j \in DOMAIN ccsd_r_vs_t :
                        j # i_ccsd => /\ ccsd_r_vs_t'[j] = ccsd_r_vs_t[j]
                                      /\ ccsd_v_vs_t'[j] = ccsd_v_vs_t[j]
            /\ (harmonic_r_vs_t' # harmonic_r_vs_t \/ harmonic_v_vs_t' # harmonic_v_vs_t
                    \/ i_harmonic' # i_harmonic) =>
                  /\ UNCHANGED << ccsd_r_vs_t, ccsd_v_vs_t, i_ccsd >>
                  /\ \A j \in DOMAIN harmonic_r_vs_t :
                        j # i_harmonic => /\ harmonic_r_vs_t'[j] = harmonic_r_vs_t[j]
                                          /\ harmonic_v_vs_t'[j] = harmonic_v_vs_t[j]]_vars

\* The ab initio trajectory three steps in while the harmonic one has
\* taken one step and the clock none, the two already apart.
C15_Witness ==
    /\ pc = "trajectories" /\ i_ccsd = 4 /\ i_harmonic = 2 /\ i_time = 1
    /\ ccsd_r_vs_t[3] # Zero /\ harmonic_r_vs_t[2] = Zero
    /\ ccsd_r_vs_t[1] # harmonic_r_vs_t[1]
=============================================================================
